---- MODULE Spec2Model ----
(***************************************************************************)
(* State-machine model of the two native adapters of cuml:                 *)
(*   - CD     (coordinate-descent solver wrapper, src/unnamed/part_001)    *)
(*   - UMAP1  (UMAP wrapper, src/python/cuml/manifold/umap.pyx)            *)
(* Every public method is one action that models the whole method body,    *)
(* including the exits through a raised exception.  The numerical work of  *)
(* the native library is not modelled: a native call is an event that      *)
(* records the arguments it was handed.                                    *)
(***************************************************************************)
EXTENDS Integers, Sequences, FiniteSets, TLC

\* ------------------------------------------------------------------ bounds
MaxRows == 1     \* X has 1..MaxRows rows
MaxCols == 2     \* X has 1..MaxCols columns
MaxFits == 3     \* UMAP1.fit is called at most MaxFits times on the instance

\* ------------------------------------------------------------ value domains
Float32 == "float32"
Float64 == "float64"
Int32   == "int32"
NoDtype == "None"
DTypes     == {Float32, Float64, Int32}
FloatTypes == {Float32, Float64}

NoErr == "None"

\* A dense input as the adapter sees it: its shape and its dtype.
NoArr == [rows |-> 0, cols |-> 0, dtype |-> NoDtype]
XInputs == [rows : 1..MaxRows, cols : 1..MaxCols, dtype : DTypes]
\* Row counts tried against an X of n rows: n itself and one other count.
RowsFor(n) == {n, n + 1}
\* y: a vector (one column) or a matrix with more than one column
YInputs(n) == [rows : RowsFor(n), cols : {1, 2}, dtype : FloatTypes]
\* sample_weight: absent (None) or a vector of some length
WInputs(n) == {NoArr} \cup [rows : RowsFor(n), cols : {1}, dtype : FloatTypes]

Losses == {"squared_loss", "hinge", "log"}

\* -------------------------------------------------------------- variables
VARIABLES
    cdAlive,     \* a CD instance exists (its __init__ returned)
    cd,          \* the instance's attributes: loss, n_cols, dtype, coef_, intercept_
    fitted,      \* history: the fitted attributes as the last successful fit left them
    lastFitOk,   \* history: the most recent fit call on the instance returned normally
    cdLast       \* the most recent CD call: its inputs, error, native events, result

cdVars == <<cdAlive, cd, fitted, lastFitOk, cdLast>>

VARIABLES
    uPc,          \* the UMAP1 instance: "alive", "destroyed", or "crashed"
    umap_params,  \* UMAP1.umap_params: 0 (NULL) or the id of a native object
    umap,         \* UMAP1.umap
    knn,          \* UMAP1.knn
    heap,         \* the native objects ever allocated, by id: kind, the fit
                  \* that allocated it, how many times it was deleted
    corrupt,      \* a double delete has returned: the allocator's
                  \* bookkeeping can no longer be relied on
    uFits,        \* number of fit calls made on the instance
    uLast         \* the most recent UMAP1 call: input, error, native events

uVars == <<uPc, umap_params, umap, knn, heap, corrupt, uFits, uLast>>

vars == <<cdVars, uVars>>

\* ------------------------------------------------------- array containers
NoCoef == [len |-> 0, dtype |-> NoDtype, content |-> "None"]

CumlArray_zeros(n, dtype) == [len |-> n, dtype |-> dtype, content |-> "zeros"]

\* cuml.common.input_utils.input_to_cuml_array: convert when asked, then check
\* dtype, column count and row count.  check_dtype = {} / check_rows = 0 /
\* check_cols = 0 stand for "no check" (the keyword left at its default).
input_to_cuml_array(X, check_dtype, convert_to_dtype, check_rows, check_cols) ==
    LET dt  == IF convert_to_dtype # NoDtype THEN convert_to_dtype ELSE X.dtype
        arr == [rows |-> X.rows, cols |-> X.cols, dtype |-> dt]
    IN  IF check_dtype # {} /\ dt \notin check_dtype
        THEN [err |-> "TypeError", arr |-> arr]
        ELSE IF check_cols # 0 /\ X.cols # check_cols
        THEN [err |-> "ValueError", arr |-> arr]
        ELSE IF check_rows # 0 /\ X.rows # check_rows
        THEN [err |-> "ValueError", arr |-> arr]
        ELSE [err |-> NoErr, arr |-> arr]

\* ---------------------------------------------------------- native events
Ev(name) ==
    [name |-> name, prec |-> NoDtype, n_rows |-> 0, n_cols |-> 0,
     X_dtype |-> NoDtype, y_dtype |-> NoDtype, sw_dtype |-> NoDtype,
     coef_len |-> 0, coef_dtype |-> NoDtype, out_len |-> 0, out_dtype |-> NoDtype]

\* self.handle.sync()
handle_sync_skipped(events) == events
handle_sync(events) == Append(events, Ev("sync"))

NoPreds == [len |-> 0, dtype |-> NoDtype, content |-> "None"]

\* ------------------------------------------------------------ CD.__init__
CDFresh(loss) ==
    [loss |-> loss, n_cols |-> 0, dtype |-> "unset",
     coef_ |-> NoCoef, intercept_ |-> "None"]

loss_supported_any(loss) == TRUE
loss_supported(loss) == loss \in {"squared_loss"}

CD_init(loss) ==
    IF ~loss_supported(loss)
    THEN [err |-> "NotImplementedError", self |-> CDFresh(loss)]
    ELSE [err |-> NoErr, self |-> CDFresh(loss)]

\* CD._get_loss_int: a dict lookup, KeyError on any other key
_get_loss_int(self) ==
    IF self.loss = "squared_loss" THEN [err |-> NoErr, val |-> 0]
    ELSE [err |-> "KeyError", val |-> 0]

FittedOf(self) ==
    [n_cols |-> self.n_cols, dtype |-> self.dtype,
     coef_ |-> self.coef_, intercept_ |-> self.intercept_]

\* ----------------------------------------------------------------- CD.fit
fit_X(X) == input_to_cuml_array(X, {Float32, Float64}, NoDtype, 0, 0)

fit_y(y, dtype, convert_dtype, n_rows) ==
    input_to_cuml_array(y, {dtype},
                        IF convert_dtype THEN dtype ELSE NoDtype, n_rows, 1)

fit_sample_weight_unchecked_rows(sample_weight, dtype, convert_dtype, n_rows) ==
    input_to_cuml_array(sample_weight, {dtype},
                        IF convert_dtype THEN dtype ELSE NoDtype, 0, 1)
fit_sample_weight(sample_weight, dtype, convert_dtype, n_rows) ==
    input_to_cuml_array(sample_weight, {dtype},
                        IF convert_dtype THEN dtype ELSE NoDtype, n_rows, 1)

\* CD.fit is written as its successive stages; each stage receives the values
\* the earlier stages computed.  Out(self, err, events) is how a call ends.
Out(self, err, events) == [self |-> self, err |-> err, events |-> events]

cdFit_call(self, n_rows, rX, rY, rW) ==
    [Ev("cdFit") EXCEPT
        !.prec = IF self.dtype = Float32 THEN Float32 ELSE Float64,
        !.n_rows = n_rows, !.n_cols = self.n_cols,
        !.X_dtype = rX.arr.dtype, !.y_dtype = rY.arr.dtype,
        !.sw_dtype = rW.arr.dtype,
        !.coef_len = self.coef_.len, !.coef_dtype = self.coef_.dtype]

\* the dtype dispatch, the native call, intercept_, the sync and the return
fit_native(self, call, li, native_raises) ==
    IF li.err # NoErr THEN Out(self, li.err, <<>>)
    ELSE IF native_raises THEN Out(self, "RuntimeError", <<call>>)
    ELSE Out([self EXCEPT !.coef_.content = "fitted", !.intercept_ = "float"],
             NoErr, handle_sync(<<call>>))

\* self.coef_ = CumlArray.zeros(self.n_cols, dtype=self.dtype)
fit_alloc_coef(self) ==
    [self EXCEPT !.coef_ = CumlArray_zeros(self.n_cols, self.dtype)]

fit_after_weights(self, n_rows, rX, rY, rW, native_raises) ==
    IF rW.err # NoErr THEN Out(self, rW.err, <<>>)
    ELSE fit_native(fit_alloc_coef(self),
                    cdFit_call(fit_alloc_coef(self), n_rows, rX, rY, rW),
                    _get_loss_int(self), native_raises)

fit_after_y(self, n_rows, rX, rY, convert_dtype, sample_weight, native_raises) ==
    IF rY.err # NoErr THEN Out(self, rY.err, <<>>)
    ELSE fit_after_weights(self, n_rows, rX, rY,
             IF sample_weight # NoArr
             THEN fit_sample_weight(sample_weight, self.dtype, convert_dtype, n_rows)
             ELSE [err |-> NoErr, arr |-> NoArr],
             native_raises)

\* X_m, n_rows, self.n_cols, self.dtype = input_to_cuml_array(X, ...)
fit_store_X(self, rX) ==
    [self EXCEPT !.n_cols = rX.arr.cols, !.dtype = rX.arr.dtype]

fit_after_X(self, rX, y, convert_dtype, sample_weight, native_raises) ==
    IF rX.err # NoErr THEN Out(self, rX.err, <<>>)
    ELSE fit_after_y(fit_store_X(self, rX), rX.arr.rows, rX,
                     fit_y(y, rX.arr.dtype, convert_dtype, rX.arr.rows),
                     convert_dtype, sample_weight, native_raises)

\* The whole of CD.fit.  native_raises: the native cdFit throws (except +).
fit(self, X, y, convert_dtype, sample_weight, native_raises) ==
    fit_after_X(self, fit_X(X), y, convert_dtype, sample_weight, native_raises)

\* ------------------------------------------------------------- CD.predict
predict_X(self, X, convert_dtype) ==
    input_to_cuml_array(X, {self.dtype},
                        IF convert_dtype THEN self.dtype ELSE NoDtype,
                        0, self.n_cols)

predict_preds_by_cols(self, arr) == CumlArray_zeros(arr.cols, self.dtype)
predict_preds(self, arr) == CumlArray_zeros(arr.rows, self.dtype)

POut(err, events, preds) == [err |-> err, events |-> events, preds |-> preds]

cdPredict_call(self, rX, preds) ==
    [Ev("cdPredict") EXCEPT
        !.prec = IF self.dtype = Float32 THEN Float32 ELSE Float64,
        !.n_rows = rX.arr.rows, !.n_cols = rX.arr.cols,
        !.X_dtype = rX.arr.dtype,
        !.coef_len = self.coef_.len, !.coef_dtype = self.coef_.dtype,
        !.out_len = preds.len, !.out_dtype = preds.dtype]

\* the dtype dispatch (with <float>self.intercept_ and _get_loss_int() as
\* arguments), the native call, the sync and the return
predict_native(self, call, preds, li, native_raises) ==
    IF self.intercept_ = "None" THEN POut("TypeError", <<>>, NoPreds)
    ELSE IF li.err # NoErr THEN POut(li.err, <<>>, NoPreds)
    ELSE IF native_raises THEN POut("RuntimeError", <<call>>, NoPreds)
    ELSE POut(NoErr, handle_sync(<<call>>), [preds EXCEPT !.content = "predicted"])

predict_after_X(self, rX, native_raises) ==
    IF rX.err # NoErr THEN POut(rX.err, <<>>, NoPreds)
    ELSE IF self.coef_ = NoCoef THEN POut("AttributeError", <<>>, NoPreds)
    ELSE predict_native(self, cdPredict_call(self, rX, predict_preds(self, rX.arr)),
                        predict_preds(self, rX.arr), _get_loss_int(self),
                        native_raises)

\* The whole of CD.predict.  native_raises: the native cdPredict throws.
predict(self, X, convert_dtype, native_raises) ==
    IF self.dtype = "unset" THEN POut("AttributeError", <<>>, NoPreds)
    ELSE predict_after_X(self, predict_X(self, X, convert_dtype), native_raises)

\* ------------------------------------------------------------- CD actions
\* What is kept of a call: the operation; for fit, whether the shapes of y and
\* of sample_weight disagreed with X; for predict, whether the column count
\* and dtype of X are those of the last successful fit, and the row count of
\* X once X was accepted (of a rejected X only the two comparisons are kept);
\* the error raised, the native events in order, and what predict returned.
NoCall ==
    [op |-> "none", loss |-> "None",
     y_mismatch |-> FALSE, sw_mismatch |-> FALSE,
     x_rows |-> 0, cols_as_fitted |-> FALSE, dtype_as_fitted |-> FALSE,
     err |-> NoErr, events |-> <<>>, preds |-> NoPreds]

CDInit ==
    /\ cdAlive = FALSE
    /\ cd = CDFresh("None")
    /\ fitted = FittedOf(CDFresh("None"))
    /\ lastFitOk = FALSE
    /\ cdLast = NoCall

\* CD(loss=...): one instance is followed; a construction that raises
\* produces no instance and may be tried again.
CDConstruct ==
    /\ ~cdAlive
    /\ \E loss \in Losses :
        \E o \in {CD_init(loss)} :
            /\ cdAlive' = (o.err = NoErr)
            /\ cd' = IF o.err = NoErr THEN o.self ELSE CDFresh("None")
            /\ fitted' = FittedOf(CDFresh("None"))
            /\ lastFitOk' = FALSE
            /\ cdLast' = [NoCall EXCEPT !.op = "init", !.loss = loss, !.err = o.err]
            /\ UNCHANGED uVars

\* Arguments a call never reads on the path it takes are not enumerated:
\* y is read only once X was accepted, sample_weight only once y was, and
\* the native routine can throw only if it is reached.
YRead(X) == fit_X(X).err = NoErr
WRead(X, y, convert_dtype) ==
    YRead(X) /\ fit_y(y, X.dtype, convert_dtype, X.rows).err = NoErr

NativeReached(X, y, convert_dtype, sw) ==
    /\ WRead(X, y, convert_dtype)
    /\ sw # NoArr => fit_sample_weight(sw, X.dtype, convert_dtype, X.rows).err = NoErr

CDFit ==
    /\ cdAlive
    /\ \E X \in XInputs, convert_dtype \in BOOLEAN :
       \E y \in IF YRead(X) THEN YInputs(X.rows) ELSE {NoArr} :
       \E sw \in IF WRead(X, y, convert_dtype) THEN WInputs(X.rows) ELSE {NoArr} :
       \E native_raises \in
             IF NativeReached(X, y, convert_dtype, sw) THEN BOOLEAN ELSE {FALSE} :
       \E o \in {fit(cd, X, y, convert_dtype, sw, native_raises)} :
            /\ cd' = o.self
            /\ fitted' = IF o.err = NoErr THEN FittedOf(o.self) ELSE fitted
            /\ lastFitOk' = (o.err = NoErr)
            /\ cdLast' = [NoCall EXCEPT
                            !.op = "fit",
                            !.y_mismatch = (y # NoArr /\ (y.rows # X.rows \/ y.cols # 1)),
                            !.sw_mismatch = (sw # NoArr /\ sw.rows # X.rows),
                            !.err = o.err, !.events = o.events]
            /\ UNCHANGED cdAlive
            /\ UNCHANGED uVars

XAccepted(self, X, convert_dtype) ==
    self.dtype # "unset" /\ predict_X(self, X, convert_dtype).err = NoErr

CDPredict ==
    /\ cdAlive
    /\ \E X \in XInputs, convert_dtype \in BOOLEAN :
       \E native_raises \in
             IF XAccepted(cd, X, convert_dtype) THEN BOOLEAN ELSE {FALSE} :
       \E o \in {predict(cd, X, convert_dtype, native_raises)} :
            /\ cdLast' = [NoCall EXCEPT !.op = "predict",
                                        !.x_rows = IF XAccepted(cd, X, convert_dtype)
                                                   THEN X.rows ELSE 0,
                                        !.cols_as_fitted = (X.cols = fitted.n_cols),
                                        !.dtype_as_fitted = (X.dtype = fitted.dtype),
                                        !.err = o.err, !.events = o.events,
                                        !.preds = o.preds]
            /\ UNCHANGED <<cdAlive, cd, fitted, lastFitOk>>
            /\ UNCHANGED uVars

\* =================================================================== UMAP1
NULL == 0

\* init as the caller passes it: a string or a number
InitValues ==
    {[t |-> "str", v |-> "spectral"], [t |-> "str", v |-> "random"],
     [t |-> "str", v |-> "pca"], [t |-> "int", v |-> "1"]}
AcceptedInits == {[t |-> "str", v |-> "spectral"], [t |-> "str", v |-> "random"]}

\* X as UMAP1.fit sees it: the number of dimensions and, if 2, the shape
UXInputs ==
    {[ndim |-> 1, rows |-> 1, cols |-> 0]}
        \cup [ndim : {2}, rows : 1..MaxRows, cols : 1..MaxCols]

\* C++ delete p: nothing for NULL; otherwise the object is released.  Deleting
\* an object that was already deleted is undefined behaviour: the count
\* records it, and the caller decides between the outcomes.
delete(h, p) ==
    IF p = NULL THEN h ELSE [h EXCEPT ![p].deletes = @ + 1]

IsDoubleDelete(h, p) == p # NULL /\ h[p].deletes >= 1

\* delete the pointers ps in order, on a heap that is already corrupt (c) or
\* not.  A double delete is undefined behaviour; what the build does with it
\* is open: the allocator aborts the process at that delete, or the delete
\* returns and leaves the allocator's bookkeeping corrupt, and from then on
\* any later delete may abort as well, in this call or in a later one.
\* crash_at chooses the outcome: the position in ps of the delete that
\* aborts, 0 for none; it counts only where an abort is possible.
RECURSIVE delete_all(_, _, _, _)
delete_all(h, c, ps, crash_at) ==
    IF ps = <<>>
    THEN [heap |-> h, corrupt |-> c, crashed |-> FALSE, ub |-> FALSE]
    ELSE IF crash_at = 1 /\ Head(ps) # NULL /\ (c \/ IsDoubleDelete(h, Head(ps)))
    THEN [heap |-> delete(h, Head(ps)), corrupt |-> TRUE, crashed |-> TRUE,
          ub |-> TRUE]
    ELSE IF IsDoubleDelete(h, Head(ps))
    THEN [delete_all(delete(h, Head(ps)), TRUE, Tail(ps), crash_at - 1)
             EXCEPT !.ub = TRUE]
    ELSE delete_all(delete(h, Head(ps)), c, Tail(ps), crash_at - 1)

NonNull(ps) == SelectSeq(ps, LAMBDA p : p # NULL)

\* UMAP1.fit, its first statements: if self.x != NULL: del self.x
fit_release_forgets_knn(params, um, kn) == NonNull(<<params, um>>)
fit_release(params, um, kn) == NonNull(<<params, um, kn>>)

\* UMAP1.__dealloc__: del self.umap_params; del self.umap; del self.knn
dealloc_release(params, um, kn) == <<params, um, kn>>

\* new T(...): a fresh native object
Obj(kind, by) == [kind |-> kind, by |-> by, deletes |-> 0]

\* new T(...) on heap h.  On a sound heap the object is fresh.  On a corrupt
\* heap (c) the allocator may hand out storage it has already handed out in
\* this call: shared # NULL is that object, which the constructor then
\* overwrites.
alloc(h, c, kind, by, shared) ==
    IF c /\ shared # NULL
    THEN [heap |-> [h EXCEPT ![shared] = Obj(kind, by)], p |-> shared]
    ELSE [heap |-> Append(h, Obj(kind, by)), p |-> Len(h) + 1]

\* The outcomes of undefined behaviour open to one call.  crash_at: the step
\* at which the process aborts (in fit 1..3 are the deletes, 4..6 the three
\* new; in __dealloc__ 1..3 are the deletes), 0 for none.  alias_params: new
\* UMAPParams returns the storage of this call's kNN.  alias_umap: new UMAP
\* returns the storage of this call's kNN (1) or UMAPParams (2).
NoUB == [crash_at |-> 0, alias_params |-> FALSE, alias_umap |-> 0]
FitUB == [crash_at : 0..6, alias_params : BOOLEAN, alias_umap : 0..2]
DeallocUB == [crash_at : 0..3, alias_params : {FALSE}, alias_umap : {0}]

\* the init argument: "spectral" -> 1, "random" -> 0, anything else raises.
\* The message is built with "%d" % init, which itself raises TypeError
\* unless init is a number.
umap_init_accepts_all(init) ==
    IF init = [t |-> "str", v |-> "spectral"] THEN [err |-> NoErr, code |-> 1]
    ELSE [err |-> NoErr, code |-> 0]
umap_init(init) ==
    IF init = [t |-> "str", v |-> "spectral"] THEN [err |-> NoErr, code |-> 1]
    ELSE IF init = [t |-> "str", v |-> "random"] THEN [err |-> NoErr, code |-> 0]
    ELSE IF init.t = "int" THEN [err |-> "Exception", code |-> 0]
    ELSE [err |-> "TypeError", code |-> 0]

UEv(name, obj, knnobj, n, d, init) ==
    [name |-> name, umap |-> obj, knn |-> knnobj, n |-> n, d |-> d, init |-> init]

UOut(h, c, params, um, kn, pc, err, events, ub) ==
    [heap |-> h, corrupt |-> c, umap_params |-> params, umap |-> um, knn |-> kn,
     pc |-> pc, err |-> err, events |-> events, ub |-> ub]

\* self.umap = new UMAP(self.umap_params) (except +) and self.umap.fit(...);
\* a2 is the heap and the UMAPParams after the init check, kn this call's kNN
umap_fit_new_umap(a2, c, um, kn, by, X, ini, ctor_raises, ub, u) ==
    IF c /\ u.crash_at = 6
    THEN UOut(a2.heap, c, a2.p, um, kn, "crashed", "crash", <<>>, TRUE)
    ELSE IF ctor_raises
    THEN UOut(a2.heap, c, a2.p, um, kn, "alive", "RuntimeError", <<>>, ub)
    ELSE LET a3 == alloc(a2.heap, c, "UMAP", by,
                         IF u.alias_umap = 1 THEN kn
                         ELSE IF u.alias_umap = 2 THEN a2.p ELSE NULL)
         IN  UOut(a3.heap, c, a2.p, a3.p, kn, "alive", NoErr,
                  <<UEv("UMAP.fit", a3.p, kn, X.rows, X.cols, ini.code)>>, ub)

\* self.umap_params = new UMAPParams() and the init check; a1 is the heap and
\* the kNN of this call
umap_fit_new_params(a1, c, params, um, by, X, ini, ctor_raises, ub, u) ==
    IF c /\ u.crash_at = 5
    THEN UOut(a1.heap, c, params, um, a1.p, "crashed", "crash", <<>>, TRUE)
    ELSE LET a2 == alloc(a1.heap, c, "UMAPParams", by,
                         IF u.alias_params THEN a1.p ELSE NULL)
         IN  IF ini.err # NoErr
             THEN UOut(a2.heap, c, a2.p, um, a1.p, "alive", ini.err, <<>>, ub)
             ELSE umap_fit_new_umap(a2, c, um, a1.p, by, X, ini, ctor_raises,
                                    ub, u)

\* after the releases and the shape assertion: the allocations, the init
\* check, the UMAP constructor and the native fit.  On a corrupt heap each
\* new may abort the process.
umap_fit_build(h, c, params, um, kn, by, X, ini, ctor_raises, ub, u) ==
    IF c /\ u.crash_at = 4
    THEN UOut(h, c, params, um, kn, "crashed", "crash", <<>>, TRUE)
    ELSE umap_fit_new_params(alloc(h, c, "kNN", by, NULL), c, params, um,
                             by, X, ini, ctor_raises, ub, u)

umap_fit_after_release(r, params, um, kn, by, X, init, ctor_raises, u) ==
    IF r.crashed
    THEN UOut(r.heap, TRUE, params, um, kn, "crashed", "crash", <<>>, TRUE)
    ELSE IF X.ndim # 2
    THEN UOut(r.heap, r.corrupt, params, um, kn, "alive", "AssertionError",
              <<>>, r.ub)
    ELSE umap_fit_build(r.heap, r.corrupt, params, um, kn, by, X,
                        umap_init(init), ctor_raises, r.ub, u)

\* The whole of UMAP1.fit.
umap_fit(h, c, params, um, kn, by, X, init, ctor_raises, u) ==
    umap_fit_after_release(
        delete_all(h, c, fit_release(params, um, kn), u.crash_at),
        params, um, kn, by, X, init, ctor_raises, u)

\* The whole of UMAP1.__dealloc__.
umap_dealloc_after_release(r, params, um, kn) ==
    UOut(r.heap, r.corrupt, params, um, kn,
         IF r.crashed THEN "crashed" ELSE "destroyed",
         IF r.crashed THEN "crash" ELSE NoErr, <<>>, r.ub)

umap_dealloc(h, c, params, um, kn, u) ==
    umap_dealloc_after_release(
        delete_all(h, c, dealloc_release(params, um, kn), u.crash_at),
        params, um, kn)

NoUCall ==
    [op |-> "none", ndim |-> 0, init |-> [t |-> "None", v |-> "None"],
     err |-> NoErr, events |-> <<>>, ub |-> FALSE]

\* __cinit__: the pointer fields of a cdef class start out NULL
UInit ==
    /\ uPc = "alive"
    /\ umap_params = NULL /\ umap = NULL /\ knn = NULL
    /\ heap = <<>>
    /\ corrupt = FALSE
    /\ uFits = 0
    /\ uLast = NoUCall

WouldDoubleDelete(ps) == \E i \in 1..Len(ps) : IsDoubleDelete(heap, ps[i])

\* a call has undefined behaviour open to it when the heap is corrupt
\* already or the call itself deletes an object a second time
UBOpen(ps) == corrupt \/ WouldDoubleDelete(ps)

UFit ==
    /\ uPc = "alive"
    /\ uFits < MaxFits
    /\ \E X \in UXInputs, init \in InitValues, ctor_raises \in BOOLEAN :
       \E u \in IF UBOpen(fit_release(umap_params, umap, knn))
                THEN FitUB ELSE {NoUB} :
       \E o \in {umap_fit(heap, corrupt, umap_params, umap, knn, uFits + 1,
                          X, init, ctor_raises, u)} :
            /\ heap' = o.heap
            /\ corrupt' = o.corrupt
            /\ umap_params' = o.umap_params
            /\ umap' = o.umap
            /\ knn' = o.knn
            /\ uPc' = o.pc
            /\ uFits' = uFits + 1
            /\ uLast' = [op |-> "fit", ndim |-> X.ndim, init |-> init,
                         err |-> o.err, events |-> o.events, ub |-> o.ub]
            /\ UNCHANGED cdVars

UDealloc ==
    /\ uPc = "alive"
    /\ \E u \in IF UBOpen(dealloc_release(umap_params, umap, knn))
                THEN DeallocUB ELSE {NoUB} :
       \E o \in {umap_dealloc(heap, corrupt, umap_params, umap, knn, u)} :
            /\ heap' = o.heap
            /\ corrupt' = o.corrupt
            /\ uPc' = o.pc
            /\ uLast' = [NoUCall EXCEPT !.op = "dealloc", !.err = o.err, !.ub = o.ub]
            /\ UNCHANGED <<umap_params, umap, knn, uFits>>
            /\ UNCHANGED cdVars

Init == CDInit /\ UInit

SpecCD == Init /\ [][CDConstruct \/ CDFit \/ CDPredict]_vars

SpecUMAP == Init /\ [][UFit \/ UDealloc]_vars

\* ============================================================== CD claims
HasEvent(name) ==
    \E i \in 1..Len(cdLast.events) : cdLast.events[i].name = name

NativeEvents ==
    {cdLast.events[i] : i \in {j \in 1..Len(cdLast.events) :
                                 cdLast.events[j].name \in {"cdFit", "cdPredict"}}}

\* C2: on an instance on which a fit succeeded, predict(X) with a column
\* count other than that of the fitted data fails (with the
\* dimension-mismatch ValueError whenever X has the fitted dtype) and the
\* native cdPredict is not invoked.
C2_PredictRejectsOtherColumnCount ==
    (cdLast.op = "predict" /\ fitted.n_cols # 0 /\ ~cdLast.cols_as_fitted)
        => /\ cdLast.err # NoErr
           /\ ~HasEvent("cdPredict")

\* The same statement restricted to instances whose most recent fit succeeded
\* (it holds there, with the dimension-mismatch ValueError whenever X has the
\* fitted dtype): C2 fails only through the attributes a failed fit leaves.
C2_HoldsWhileLastFitSucceeded ==
    (cdLast.op = "predict" /\ lastFitOk /\ ~cdLast.cols_as_fitted)
        => /\ cdLast.err \in {"ValueError", "TypeError"}
           /\ cdLast.dtype_as_fitted => cdLast.err = "ValueError"
           /\ ~HasEvent("cdPredict")

\* C3: a fit whose y has another row count than X or more than one column,
\* or whose sample_weight has another length than X has rows, fails
\* validation and the native cdFit is not invoked.
C3_FitValidatesShapesBeforeNative ==
    (cdLast.op = "fit" /\ (cdLast.y_mismatch \/ cdLast.sw_mismatch))
        => /\ cdLast.err \in {"ValueError", "TypeError"}
           /\ cdLast.events = <<>>

C3_Witness ==
    /\ cdLast.op = "fit"
    /\ cdLast.sw_mismatch /\ ~cdLast.y_mismatch
    /\ cdLast.err = "ValueError"
    /\ cdLast.events = <<>>

\* C4: after a fit that failed, the fitted attributes (n_cols, dtype, coef_,
\* intercept_) are exactly those the last successful fit left, or all absent
\* if none succeeded: nothing the failed call wrote remains.
C4_FailedFitLeavesNoPartialState ==
    (cdLast.op = "fit" /\ cdLast.err # NoErr) => FittedOf(cd) = fitted

\* C5: every native cdFit / cdPredict call is the overload of the precision of
\* X, and every buffer handed to it or returned from it (X, y, sample weights,
\* coef_, preds) has that precision.
C5_OnePrecisionPerNativeCall ==
    \A e \in NativeEvents :
        /\ e.prec \in FloatTypes
        /\ e.X_dtype = e.prec
        /\ e.coef_dtype = e.prec
        /\ e.name = "cdFit" => (e.y_dtype = e.prec /\ e.sw_dtype \in {e.prec, NoDtype})
        /\ e.name = "cdPredict" => e.out_dtype = e.prec

\* C6: a fit or predict that returns normally has issued its native call and,
\* after it, handle.sync(): the native call is followed by a sync.
C6_SyncAfterNativeBeforeReturn ==
    (cdLast.op \in {"fit", "predict"} /\ cdLast.err = NoErr)
        => /\ HasEvent(IF cdLast.op = "fit" THEN "cdFit" ELSE "cdPredict")
           /\ \A i \in 1..Len(cdLast.events) :
                 cdLast.events[i].name \in {"cdFit", "cdPredict"}
                    => \E j \in (i+1)..Len(cdLast.events) :
                          cdLast.events[j].name = "sync"

C6_Witness ==
    /\ cdLast.op = "predict" /\ cdLast.err = NoErr
    /\ Len(cdLast.events) = 2
    /\ cdLast.events[1].name = "cdPredict"
    /\ cdLast.events[2].name = "sync"

\* C7: constructing CD with a loss other than 'squared_loss' raises
\* NotImplementedError and produces no instance; every instance has a
\* supported loss, so no fit or predict ever fails on the loss (KeyError).
C7_UnsupportedLossFailsAtConstruction ==
    /\ cdAlive => cd.loss = "squared_loss"
    /\ (cdLast.op = "init" /\ cdLast.loss # "squared_loss")
          => (cdLast.err = "NotImplementedError" /\ ~cdAlive)
    /\ cdLast.err # "KeyError"

C7_Witness ==
    /\ cdLast.op = "init" /\ cdLast.loss = "hinge"
    /\ cdLast.err = "NotImplementedError" /\ ~cdAlive

\* C9: after a fit that succeeded, predict on data of the fitted shape and
\* dtype (in particular on the same X) passes validation and, unless the
\* native routine itself throws, returns a buffer of length n_rows of X.
C9_PredictAfterFitReturnsNRows ==
    (/\ cdLast.op = "predict" /\ lastFitOk
     /\ cdLast.cols_as_fitted /\ cdLast.dtype_as_fitted
     /\ cdLast.err # "RuntimeError")
        => /\ cdLast.err = NoErr
           /\ cdLast.x_rows >= 1
           /\ cdLast.preds.len = cdLast.x_rows

C9_Witness ==
    /\ cdLast.op = "predict" /\ lastFitOk
    /\ cdLast.cols_as_fitted /\ cdLast.dtype_as_fitted
    /\ cdLast.err = NoErr
    /\ cdLast.preds.len = cdLast.x_rows
    /\ cdLast.preds.len # fitted.n_cols

\* The statements of C5 and C10 likewise hold while the most recent fit
\* succeeded.
C5_C10_HoldWhileLastFitSucceeded ==
    lastFitOk => \A e \in NativeEvents :
                    /\ e.X_dtype = e.prec /\ e.coef_dtype = e.prec
                    /\ e.coef_len = e.n_cols

\* C10: whenever predict issues the native cdPredict, the coefficient buffer
\* handed to it has exactly n_cols entries, n_cols being the column count
\* handed to the same call.
C10_CoefLengthIsNCols ==
    \A e \in NativeEvents : e.name = "cdPredict" => e.coef_len = e.n_cols

\* =========================================================== UMAP1 claims
Held == {umap_params, umap, knn} \ {NULL}

\* C1: no native object is leaked.  Every object not yet released is held by
\* one of the instance's three fields (so what an earlier fit allocated is
\* released by the time a later fit has replaced the fields); after a fit
\* that returned normally each of the three fields holds a live object that
\* this fit allocated, and on an intact heap these are three distinct
\* objects of the three kinds; and once the instance is destroyed every
\* object ever allocated has been released.
C1_NoNativeObjectLeaked ==
    /\ \A i \in 1..Len(heap) : heap[i].deletes = 0 => i \in Held
    /\ (uLast.op = "fit" /\ uLast.err = NoErr)
          => /\ umap_params # NULL /\ umap # NULL /\ knn # NULL
             /\ \A i \in Held : heap[i].by = uFits /\ heap[i].deletes = 0
             /\ ~corrupt
                   => /\ Cardinality(Held) = 3
                      /\ heap[umap_params].kind = "UMAPParams"
                      /\ heap[umap].kind = "UMAP"
                      /\ heap[knn].kind = "kNN"
    /\ uPc = "destroyed" => \A i \in 1..Len(heap) : heap[i].deletes >= 1

C1_Witness ==
    /\ uPc = "destroyed"
    /\ uFits >= 2
    /\ Len(heap) >= 6
    /\ \A i \in 1..Len(heap) : heap[i].deletes = 1

\* C8: a fit whose init is neither "spectral" nor "random" raises and the
\* native UMAP fit is not invoked; when the call gets as far as the init
\* check the error is the one raised there.  A fit with one of the two
\* accepted values on two-dimensional X invokes the native fit unless the
\* native constructor throws.
C8_OnlySpectralAndRandomAccepted ==
    /\ (uLast.op = "fit" /\ uLast.init \notin AcceptedInits)
          => /\ uLast.err # NoErr
             /\ uLast.events = <<>>
             /\ (uLast.ndim = 2 /\ uLast.err # "crash")
                    => uLast.err \in {"Exception", "TypeError"}
    /\ (uLast.op = "fit" /\ uLast.init \in AcceptedInits /\ uLast.ndim = 2
          /\ uLast.err \notin {"crash", "RuntimeError"})
          => /\ uLast.err = NoErr
             /\ Len(uLast.events) = 1
             /\ uLast.events[1].name = "UMAP.fit"

C8_Witness ==
    /\ uLast.op = "fit" /\ uLast.ndim = 2
    /\ uLast.init = [t |-> "str", v |-> "pca"]
    /\ uLast.err = "TypeError"
    /\ uLast.events = <<>>

\* C11: in any sequence of fits (failing ones included) followed by
\* destruction, no native object is deleted more than once and no deleted
\* object is handed to a native call: every pointer a call deletes or passes
\* on is NULL or points to a live object, so no call runs into a double
\* delete.
C11_NoDoubleDeleteNoUseAfterDelete ==
    /\ \A i \in 1..Len(heap) : heap[i].deletes <= 1
    /\ ~uLast.ub
    /\ \A k \in 1..Len(uLast.events) :
          /\ heap[uLast.events[k].umap].deletes = 0
          /\ heap[uLast.events[k].knn].deletes = 0

====
